---- MODULE Spec2Model ----
(***************************************************************************)
(* Model of the basenames command-line utilities:                          *)
(*   src/py/ens_namehash_converter.py          (the namehash pipeline)     *)
(*   src/script/premint/generate_batch_renewals.py (the renewal pipeline)  *)
(*                                                                         *)
(* A Python str is a sequence of one-character strings, a bytes object a   *)
(* sequence of numbers 0..255.  keccak-256 is an external primitive: it is *)
(* modelled by a small deterministic hash of DigestSize bytes, so that     *)
(* collisions exist in the model and nothing can rest on their absence.    *)
(***************************************************************************)
EXTENDS Integers, Sequences, FiniteSets, TLC

\* ------------------------------------------------------------------ bounds

\* Bytes in a digest (32 in the program).
DigestSize == 2
\* Longest name handed to namehash() when it is exercised on its own.
MaxNameLen == 3
\* Most data rows of an input file.
MaxRows == 3

\* ------------------------------------------------------- strings and bytes

\* A lone surrogate code point: a legal element of a Python str that has no
\* UTF-8 encoding.
Surrogate == "U+D800"

\* The lower-case form of each upper-case letter.
LowerCase ==
    [A |-> "a", B |-> "b", C |-> "c", D |-> "d", E |-> "e", F |-> "f", G |-> "g",
     H |-> "h", I |-> "i", J |-> "j", K |-> "k", L |-> "l", M |-> "m", N |-> "n",
     O |-> "o", P |-> "p", Q |-> "q", R |-> "r", S |-> "s", T |-> "t", U |-> "u",
     V |-> "v", W |-> "w", X |-> "x", Y |-> "y", Z |-> "z"]

\* str.lower(), code point by code point: only cased letters change.
LowerChar(c) == IF c \in DOMAIN LowerCase THEN LowerCase[c] ELSE c

lower(s) == [k \in 1..Len(s) |-> LowerChar(s[k])]

IsSpace(c) == c = " "

RECURSIVE lstrip(_)
lstrip(s) ==
    IF s # <<>> /\ IsSpace(Head(s)) THEN lstrip(Tail(s)) ELSE s

RECURSIVE rstrip(_)
rstrip(s) ==
    IF s # <<>> /\ IsSpace(s[Len(s)]) THEN rstrip(SubSeq(s, 1, Len(s) - 1)) ELSE s

\* str.strip()
strip(s) == rstrip(lstrip(s))

\* The UTF-8 code of an ASCII character.
Utf8Code(c) ==
    CASE c = "a" -> 97
      [] c = "b" -> 98
      [] c = "c" -> 99
      [] c = "e" -> 101
      [] c = "h" -> 104
      [] c = "s" -> 115
      [] c = "t" -> 116
      [] c = "A" -> 65
      [] c = "B" -> 66
      [] c = "." -> 46
      [] c = " " -> 32
      [] OTHER -> 63

\* str.encode('utf-8'): the bytes, or UnicodeEncodeError for a lone surrogate.
Encodable(s) == \A k \in 1..Len(s) : s[k] # Surrogate

encode_utf8(s) == [k \in 1..Len(s) |-> Utf8Code(s[k])]

\* str.split(sep) from the left: `done` are the labels closed so far, `label`
\* the one being read.
RECURSIVE split_from(_, _, _, _)
split_from(s, sep, done, label) ==
    IF s = <<>> THEN Append(done, label)
    ELSE IF Head(s) = sep THEN split_from(Tail(s), sep, Append(done, label), <<>>)
    ELSE split_from(Tail(s), sep, done, Append(label, Head(s)))

\* str.split(sep): the labels between the separators, empty ones included.
split(s, sep) == split_from(s, sep, <<>>, <<>>)

\* reversed(seq)
reversed(s) == [k \in 1..Len(s) |-> s[Len(s) + 1 - k]]

RECURSIVE Pow(_, _)
Pow(b, n) == IF n = 0 THEN 1 ELSE b * Pow(b, n - 1)

\* int.from_bytes(bytes, byteorder='big')
RECURSIVE from_bytes(_)
from_bytes(bs) ==
    IF bs = <<>> THEN 0 ELSE 256 * from_bytes(SubSeq(bs, 1, Len(bs) - 1)) + bs[Len(bs)]

\* The number of values of a digest.
DigestRange == Pow(256, DigestSize)

\* The big-endian bytes of n, DigestSize of them.
to_bytes(n) == [k \in 1..DigestSize |-> (n \div Pow(256, DigestSize - k)) % 256]

\* keccak.new(digest_bits=256).update(data).digest(): a deterministic hash
\* of the whole byte string to DigestSize bytes.
RECURSIVE KeccakFold(_, _)
KeccakFold(h, bs) ==
    IF bs = <<>> THEN h
    ELSE KeccakFold((h * 33 + Head(bs) + 1) % DigestRange, Tail(bs))

keccak256(bs) == to_bytes(KeccakFold(5381 % DigestRange, bs))

\* b'\x00' * 32
ZeroHash == [k \in 1..DigestSize |-> 0]

HexDigit(n) ==
    <<"0", "1", "2", "3", "4", "5", "6", "7",
      "8", "9", "a", "b", "c", "d", "e", "f">>[n + 1]

UpperHexDigit(n) ==
    <<"0", "1", "2", "3", "4", "5", "6", "7",
      "8", "9", "A", "B", "C", "D", "E", "F">>[n + 1]

\* Hex in upper case, as bytes.hex().upper() would give.
RECURSIVE hex_upper(_)
hex_upper(bs) ==
    IF bs = <<>> THEN <<>>
    ELSE <<UpperHexDigit(Head(bs) \div 16), UpperHexDigit(Head(bs) % 16)>>
         \o hex_upper(Tail(bs))

\* bytes.hex(): two lower-case hex digits per byte.
RECURSIVE hex(_)
hex(bs) ==
    IF bs = <<>> THEN <<>>
    ELSE <<HexDigit(Head(bs) \div 16), HexDigit(Head(bs) % 16)>> \o hex(Tail(bs))

\* ---------------------------------------------------------------- namehash

\* What a call returns: a value, or the exception it raises.
Returned(v) == [raised |-> FALSE, value |-> v]
Raised(e) == [raised |-> TRUE, value |-> e]

\* The loop of namehash(): one label per iteration, the rightmost first.
RECURSIVE namehash_loop(_, _)
namehash_loop(labels, node) ==
    IF labels = <<>> THEN Returned(node)
    ELSE IF ~Encodable(Head(labels)) THEN Raised("UnicodeEncodeError")
    ELSE LET label_hash == keccak256(encode_utf8(Head(labels)))
         IN namehash_loop(Tail(labels), keccak256(node \o label_hash))

\* The loop with str.lower() left out: labels hashed in their original case.
namehash_no_lower(name) ==
    IF name = <<>> THEN Returned(ZeroHash)
    ELSE namehash_loop(reversed(split(name, ".")), ZeroHash)

namehash(name) ==
    IF name = <<>> THEN Returned(ZeroHash)
    ELSE namehash_loop(reversed(split(lower(name), ".")), ZeroHash)


\* ------------------------------------------------------------------- state

VARIABLES
    prog,                   \* which program runs: "namehash", "converter", "renewal"
    pc,                     \* position in the program
    exit_code,              \* the process exit code, -1 while running
    error,                  \* why the run ended early, "" otherwise
    input_exists,           \* whether the input path exists when main() checks
    out_before,             \* what the output path held before the run
    out_file,               \* what the output path holds now
    out_open,               \* whether the output file is open for writing
    \* ens_namehash_converter.py
    BASE_RPC_URL,           \* truthiness of os.getenv('BASE_RPC_URL')
    REGISTRY_CONTRACT_ADDRESS, \* truthiness of os.getenv('REGISTRY_ADDR')
    argv3,                  \* sys.argv[3], <<>> when absent
    validate_registry,
    names,                  \* what read_names_from_csv returned
    i,                      \* handles the conversion loop has gone through
    results,
    unregistered_count,
    registry_connection,    \* truthiness of init_web3_connection()'s result
    owners,                 \* owner_address of every lookup made, in order
    error_count,            \* check_namehash_owner._error_count (0: not set)
    registry_log,           \* the lines check_namehash_owner has printed
    \* generate_batch_renewals.py
    excluded_names,
    duration_seconds,
    lines,                  \* the lines of the input file
    line_num,
    seen_ids,
    unique_entries,
    duplicate_names,
    excluded_names_found,
    \* namehash() on its own
    nh_name,
    nh_result,
    \* read_names_from_csv() on its own
    rd_file,                \* the input file: whether it can be opened, its rows
    rd_result

shared_vars == <<prog, pc, exit_code, error, input_exists, out_before, out_file, out_open>>
converter_vars == <<BASE_RPC_URL, REGISTRY_CONTRACT_ADDRESS, argv3, validate_registry,
                    names, i, results, unregistered_count, registry_connection,
                    owners, error_count, registry_log>>
renewal_vars == <<excluded_names, duration_seconds, lines, line_num, seen_ids,
                  unique_entries, duplicate_names, excluded_names_found>>
namehash_vars == <<nh_name, nh_result>>
reader_vars == <<rd_file, rd_result>>
vars == <<shared_vars, converter_vars, renewal_vars, namehash_vars, reader_vars>>

\* A path with no file, and a file left by an earlier run.
NoFile == [exists |-> FALSE, rows |-> <<>>]
OldFile == [exists |-> TRUE, rows |-> << <<"o", "l", "d">> >>]

\* ------------------------------------------- ens_namehash_converter.py

NoValidationFlag ==
    <<"-", "-", "n", "o", "-", "v", "a", "l", "i", "d", "a", "t", "i", "o", "n">>
\* sys.argv[3]: absent, the flag, the flag in another case, another word.
ArgvChoices ==
    { <<>>, NoValidationFlag,
      <<"-", "-", "N", "o", "-", "V", "a", "l", "i", "d", "a", "t", "i", "o", "n">>,
      <<"-", "v">> }

ZERO_ADDRESS == "0x0000000000000000000000000000000000000000"
SOME_ADDRESS == "0x4200000000000000000000000000000000000006"
None == "None"

BaseEthSuffix == <<".", "b", "a", "s", "e", ".", "e", "t", "h">>
NodeHeader == << <<"n", "o", "d", "e">> >>

\* Bytes the reader removes before parsing: NUL, and bytes that are not UTF-8
\* (dropped by decode(errors='ignore')).
NUL == "\\x00"
BadByte == "\\xed"

IsKept(c) == c # NUL /\ c # BadByte

\* content.replace(b'\x00', b'') ... .decode('utf-8', errors='ignore'), on one cell.
clean(cell) == SelectSeq(cell, IsKept)

\* A field longer than csv.field_size_limit(): the csv parser raises csv.Error
\* when it reads the row that holds it.
OversizeField == <<"field larger than field limit">>

Unparsable(row) == \E k \in 1..Len(row) : row[k] = OversizeField

\* csv.DictReader's row[name_column] for name_column = fieldnames[0]: the row
\* is dict(zip(fieldnames, row)) with the missing columns set to None, so the
\* value is the cell under the last column of that name, None (here <<>>)
\* when the row is shorter.
first_column(fieldnames, row) ==
    LET k == CHOOSE j \in 1..Len(fieldnames) :
                 /\ clean(fieldnames[j]) = clean(fieldnames[1])
                 /\ \A m \in (j + 1)..Len(fieldnames) :
                        clean(fieldnames[m]) # clean(fieldnames[1])
    IN IF k <= Len(row) THEN clean(row[k]) ELSE <<>>

\* The rows loop of read_names_from_csv, lines 237-250. The parser's error is
\* raised by the iteration itself, outside the per-row try; blank rows are not
\* rows to DictReader; a row whose trimmed value is empty is passed over.
\* Nothing in the per-row try raises for a str cell, so skipped_lines is
\* never incremented.
RECURSIVE read_rows(_, _, _, _)
read_rows(fieldnames, rows, found, skipped_lines) ==
    IF rows = <<>> THEN Returned([names |-> found, skipped_lines |-> skipped_lines])
    ELSE IF Unparsable(Head(rows)) THEN Raised("csv.Error")
    ELSE IF Head(rows) = <<>> THEN read_rows(fieldnames, Tail(rows), found, skipped_lines)
    ELSE LET name == strip(first_column(fieldnames, Head(rows)))
         IN read_rows(fieldnames, Tail(rows),
                      IF name # <<>> THEN Append(found, name) ELSE found,
                      skipped_lines)

\* The reader that takes every row, the first one too, as a data row.
read_names_from_csv_no_header(content) ==
    IF content = <<>> \/ Head(content) = <<>>
    THEN Raised("ValueError")
    ELSE read_rows(Head(content), content, <<>>, 0)

\* read_names_from_csv, lines 212-262, on the parsed rows of a file that could
\* be opened: the names and skipped_lines, or the exception that ends the
\* run: csv.Error from the parser, ValueError when fieldnames is None (no
\* rows) or [] (a blank first line).
read_names_from_csv(content) ==
    IF content # <<>> /\ Unparsable(Head(content)) THEN Raised("csv.Error")
    ELSE IF content = <<>> \/ Head(content) = <<>> THEN Raised("ValueError")
    ELSE read_rows(Head(content), Tail(content), <<>>, 0)

\* The first-column cells an input file may hold.
RawCells == { <<"a">>, <<" ", "A", " ">>, <<"b", NUL>>, <<" ">> }
HeaderRow == << <<"n", "a", "m", "e">> >>

\* First rows: the header, a blank line, a header of two columns, a header
\* that repeats its first name, a field beyond the limit.
HeaderRows ==
    { HeaderRow, <<>>, HeaderRow \o << <<"x">> >>, HeaderRow \o HeaderRow,
      <<OversizeField>> }

\* Data rows: one cell, a blank line, two cells, a field beyond the limit.
CsvRows ==
    { <<c>> : c \in RawCells }
    \cup { <<>>, << <<" ">>, <<"b">> >>, <<OversizeField>> }

RECURSIVE RowSeqs(_)
RowSeqs(n) ==
    IF n = 0 THEN { <<>> }
    ELSE LET shorter == RowSeqs(n - 1)
         IN shorter \cup { Append(s, r) : s \in {t \in shorter : Len(t) = n - 1},
                                          r \in CsvRows }

\* Input files: no rows at all, or a first row and up to MaxRows more rows.
InputFiles == { <<>> } \cup { <<h>> \o s : h \in HeaderRows, s \in RowSeqs(MaxRows) }

\* The two lines check_namehash_owner prints.
VerboseError == "Registry error (will suppress further errors)"
SuppressionNotice == "... (suppressing additional registry errors)"

\* The number of failures reported in full.
VerboseLimit == 3

\* The notice repeated at every failure after the verbose ones.
error_prints_notice_repeated(count) ==
    IF count <= VerboseLimit THEN <<VerboseError>> ELSE <<SuppressionNotice>>

\* Lines 153-156: what the handler prints once the counter is `count`.
error_prints(count) ==
    IF count <= VerboseLimit THEN <<VerboseError>>
    ELSE IF count = VerboseLimit + 1 THEN <<SuppressionNotice>>
    ELSE <<>>

\* A lookup that reports a failure as the zero address.
check_namehash_owner_zero_on_failure(reply, count) ==
    IF reply.raised
    THEN [owner |-> ZERO_ADDRESS, count |-> count + 1, printed |-> error_prints(count + 1)]
    ELSE [owner |-> reply.value, count |-> count, printed |-> <<>>]

\* check_namehash_owner: `reply` is what registry_contract.functions.owner(...)
\* .call() does (returns an address or raises); the result is the returned
\* owner and the function's error counter.
check_namehash_owner(reply, count) ==
    IF reply.raised
    THEN [owner |-> None, count |-> count + 1, printed |-> error_prints(count + 1)]
    ELSE [owner |-> reply.value, count |-> count, printed |-> <<>>]

\* A comparison with an address no lookup returns.
is_unregistered_never(owner_address) == owner_address = "0x0"

\* Line 320: the owner is the zero address.
is_unregistered(owner_address) == owner_address = ZERO_ADDRESS

RegistryReplies == { Returned(ZERO_ADDRESS), Returned(SOME_ADDRESS), Raised("Exception") }

\* sys.exit(code) / the end of the process.
Exit(code, why) ==
    /\ pc' = "exited"
    /\ exit_code' = code
    /\ error' = why

\* Lines 41-54: the module-level check of the two environment variables.
ModuleConfigCheck ==
    /\ prog = "converter" /\ pc = "import"
    /\ IF ~BASE_RPC_URL \/ ~REGISTRY_CONTRACT_ADDRESS
       THEN Exit(1, "missing_config")
       ELSE pc' = "main" /\ UNCHANGED <<exit_code, error>>
    /\ UNCHANGED <<prog, input_exists, out_before, out_file, out_open,
                   converter_vars, renewal_vars, namehash_vars, reader_vars>>

\* main(), lines 380-413: the validation flag, then the input-file check.
MainCheckInput ==
    /\ prog = "converter" /\ pc = "main"
    /\ validate_registry' = ~(argv3 # <<>> /\ lower(argv3) = NoValidationFlag)
    /\ IF ~input_exists
       THEN Exit(1, "input_missing")
       ELSE pc' = "read" /\ UNCHANGED <<exit_code, error>>
    /\ UNCHANGED <<prog, input_exists, out_before, out_file, out_open,
                   BASE_RPC_URL, REGISTRY_CONTRACT_ADDRESS, argv3,
                   names, i, results, unregistered_count, registry_connection,
                   owners, error_count, registry_log, renewal_vars, namehash_vars, reader_vars>>

\* main() line 418 and read_names_from_csv: the file cannot be opened, or
\* it holds `content`.
ReadNames ==
    /\ prog = "converter" /\ pc = "read"
    /\ \/ /\ Exit(1, "read_error")
          /\ UNCHANGED names
       \/ \E content \in InputFiles :
            LET r == read_names_from_csv(content)
            IN IF r.raised
               THEN Exit(1, "read_error") /\ UNCHANGED names
               ELSE /\ names' = r.value.names
                    /\ pc' = "convert"
                    /\ UNCHANGED <<exit_code, error>>
    /\ UNCHANGED <<prog, input_exists, out_before, out_file, out_open,
                   BASE_RPC_URL, REGISTRY_CONTRACT_ADDRESS, argv3, validate_registry,
                   i, results, unregistered_count, registry_connection,
                   owners, error_count, registry_log, renewal_vars, namehash_vars, reader_vars>>

\* What init_web3_connection can do: return the connection, return None (not
\* connected, or any exception), or leave through load_registry_abi's sys.exit(1).
InitOutcomes == {"connected", "not_connected", "exception", "abi_exit"}

\* Initialization that goes on without validation when no connection is made.
InitRegistry_skip_validation ==
    /\ prog = "converter" /\ pc = "convert"
    /\ IF validate_registry
       THEN \E outcome \in InitOutcomes :
              CASE outcome = "connected" ->
                     /\ registry_connection' = TRUE
                     /\ pc' = "convert_loop"
                     /\ UNCHANGED <<exit_code, error>>
                [] outcome = "abi_exit" ->
                     /\ Exit(1, "abi_missing")
                     /\ UNCHANGED registry_connection
                [] OTHER ->
                     /\ pc' = "convert_loop"
                     /\ UNCHANGED <<exit_code, error, registry_connection>>
       ELSE /\ pc' = "convert_loop"
            /\ UNCHANGED <<exit_code, error, registry_connection>>
    /\ UNCHANGED <<prog, input_exists, out_before, out_file, out_open,
                   BASE_RPC_URL, REGISTRY_CONTRACT_ADDRESS, argv3, validate_registry,
                   names, i, results, unregistered_count,
                   owners, error_count, registry_log, renewal_vars, namehash_vars, reader_vars>>

\* convert_names_to_namehashes, lines 282-298, and main()'s check of its
\* None (lines 426-430).
InitRegistry ==
    /\ prog = "converter" /\ pc = "convert"
    /\ IF validate_registry
       THEN \E outcome \in InitOutcomes :
              CASE outcome = "connected" ->
                     /\ registry_connection' = TRUE
                     /\ pc' = "convert_loop"
                     /\ UNCHANGED <<exit_code, error>>
                [] outcome = "abi_exit" ->
                     /\ Exit(1, "abi_missing")
                     /\ UNCHANGED registry_connection
                [] OTHER ->
                     /\ Exit(1, "validation_unavailable")
                     /\ UNCHANGED registry_connection
       ELSE /\ pc' = "convert_loop"
            /\ UNCHANGED <<exit_code, error, registry_connection>>
    /\ UNCHANGED <<prog, input_exists, out_before, out_file, out_open,
                   BASE_RPC_URL, REGISTRY_CONTRACT_ADDRESS, argv3, validate_registry,
                   names, i, results, unregistered_count,
                   owners, error_count, registry_log, renewal_vars, namehash_vars, reader_vars>>

\* One iteration of the loop of convert_names_to_namehashes, lines 300-340.
ConvertName ==
    /\ prog = "converter" /\ pc = "convert_loop" /\ i < Len(names)
    /\ LET name == names[i + 1]
           full_basename == name \o BaseEthSuffix
           name_hash == namehash(full_basename)
       IN IF name_hash.raised
          THEN UNCHANGED <<results, unregistered_count, owners, error_count, registry_log>>
          ELSE LET namehash_hex == <<"0", "x">> \o hex(name_hash.value)
               IN IF registry_connection
                  THEN \E reply \in RegistryReplies :
                         LET r == check_namehash_owner(reply, error_count)
                         IN /\ owners' = Append(owners, r.owner)
                            /\ error_count' = r.count
                            /\ registry_log' = registry_log \o r.printed
                            /\ IF is_unregistered(r.owner)
                               THEN /\ unregistered_count' = unregistered_count + 1
                                    /\ UNCHANGED results
                               ELSE /\ results' = Append(results, namehash_hex)
                                    /\ UNCHANGED unregistered_count
                  ELSE /\ results' = Append(results, namehash_hex)
                       /\ UNCHANGED <<unregistered_count, owners, error_count, registry_log>>
    /\ i' = i + 1
    /\ UNCHANGED <<shared_vars, BASE_RPC_URL, REGISTRY_CONTRACT_ADDRESS, argv3,
                   validate_registry, names, registry_connection,
                   renewal_vars, namehash_vars, reader_vars>>

\* The loop is over: lines 342-350, and main() goes on to step 3.
ConvertDone ==
    /\ prog = "converter" /\ pc = "convert_loop" /\ i = Len(names)
    /\ pc' = "write_open"
    /\ UNCHANGED <<prog, exit_code, error, input_exists, out_before, out_file, out_open,
                   converter_vars, renewal_vars, namehash_vars, reader_vars>>

\* write_results_to_csv, line 362: open(output_file, 'w') truncates the file,
\* or fails (except Exception: sys.exit(1)).
WriteOpen ==
    /\ prog = "converter" /\ pc = "write_open"
    /\ \/ /\ out_file' = [exists |-> TRUE, rows |-> <<>>]
          /\ out_open' = TRUE
          /\ pc' = "write_header"
          /\ UNCHANGED <<exit_code, error>>
       \/ /\ Exit(1, "write_error")
          /\ UNCHANGED <<out_file, out_open>>
    /\ UNCHANGED <<prog, input_exists, out_before,
                   converter_vars, renewal_vars, namehash_vars, reader_vars>>

\* Line 366.
WriteHeader ==
    /\ prog = "converter" /\ pc = "write_header"
    /\ out_file' = [out_file EXCEPT !.rows = Append(@, NodeHeader)]
    /\ pc' = "write_rows"
    /\ UNCHANGED <<prog, exit_code, error, input_exists, out_before, out_open,
                   converter_vars, renewal_vars, namehash_vars, reader_vars>>

\* Lines 369-370: the next row, or a failing write (the with block closes
\* the file, then except Exception: sys.exit(1)).
WriteRow ==
    /\ prog = "converter" /\ pc = "write_rows"
    /\ Len(out_file.rows) - 1 < Len(results)
    /\ \/ /\ out_file' = [out_file EXCEPT !.rows = Append(@, <<results[Len(@)]>>)]
          /\ UNCHANGED <<pc, exit_code, error, out_open>>
       \/ /\ Exit(1, "write_error")
          /\ out_open' = FALSE
          /\ UNCHANGED out_file
    /\ UNCHANGED <<prog, input_exists, out_before,
                   converter_vars, renewal_vars, namehash_vars, reader_vars>>

\* Lines 371-373 and 436-440: the file is closed and main() returns.
WriteClose ==
    /\ prog = "converter" /\ pc = "write_rows"
    /\ Len(out_file.rows) - 1 = Len(results)
    /\ out_open' = FALSE
    /\ Exit(0, "")
    /\ UNCHANGED <<prog, input_exists, out_before, out_file,
                   converter_vars, renewal_vars, namehash_vars, reader_vars>>

\* Lines 442-444: KeyboardInterrupt anywhere in main()'s try block; an open
\* output file is closed by its with block on the way out.
Interrupt ==
    /\ prog = "converter"
    /\ pc \in {"read", "convert", "convert_loop", "write_open", "write_header", "write_rows"}
    /\ out_open' = FALSE
    /\ Exit(1, "interrupted")
    /\ UNCHANGED <<prog, input_exists, out_before, out_file,
                   converter_vars, renewal_vars, namehash_vars, reader_vars>>


\* ------------------------------------------- generate_batch_renewals.py

\* keccak256_to_uint, lines 23-38.
keccak256_to_uint(data) == from_bytes(keccak256(encode_utf8(data)))

\* calculate_duration_in_seconds, lines 40-53, for a number of quarter years:
\* int(365.25 * (quarters / 4) * 86400), and 365.25 = 1461 / 4.
calculate_duration_in_seconds(quarters) == 1461 * quarters * (86400 \div 16)

\* The --duration values tried: 1 year and 5 years (the default).
DurationChoices == {4, 20}

\* str(n) for n >= 0.
RECURSIVE str(_)
str(n) ==
    IF n < 10 THEN <<HexDigit(n)>> ELSE str(n \div 10) \o <<HexDigit(n % 10)>>

\* load_excluded_names, lines 77-89, on the lostnames file beside the script.
load_excluded_names(lostnames_file) ==
    IF lostnames_file.exists
    THEN { lower(strip(lostnames_file.rows[k])) :
             k \in { j \in 1..Len(lostnames_file.rows) : strip(lostnames_file.rows[j]) # <<>> } }
    ELSE {}

LostnamesFiles ==
    { NoFile,
      [exists |-> TRUE, rows |-> << <<" ", "A">> >>],
      [exists |-> TRUE, rows |-> << <<"b">>, <<>>, <<"a", " ">> >>] }

\* The lines an input file may hold.
RawLines == { <<"a">>, <<" ", "A">>, <<"b">>, <<>> }

RECURSIVE LineSeqs(_)
LineSeqs(n) ==
    IF n = 0 THEN { <<>> }
    ELSE LET shorter == LineSeqs(n - 1)
         IN shorter \cup { Append(s, c) : s \in {t \in shorter : Len(t) = n - 1},
                                          c \in RawLines }

RenewalHeader == << <<"i", "d">>, <<"d", "u", "r", "a", "t", "i", "o", "n">> >>

\* Line 128, compared without lower-casing the name.
is_excluded_case_sensitive(name, excluded) == name \in excluded

\* Line 128: the case-insensitive membership test.
is_excluded(name, excluded) == lower(name) \in excluded

\* The seen set left as it was.
mark_seen_forgotten(seen, name_id) == seen

\* Line 134: seen_ids.add(name_id)
mark_seen(seen, name_id) == seen \cup {name_id}

\* The input-file check ending with a bare return: exit(None) is exit code 0.
RenewalCheckInput_bare_return ==
    /\ prog = "renewal" /\ pc = "main"
    /\ IF ~input_exists
       THEN Exit(0, "input_missing")
       ELSE pc' = "load" /\ UNCHANGED <<exit_code, error>>
    /\ UNCHANGED <<prog, input_exists, out_before, out_file, out_open,
                   converter_vars, renewal_vars, namehash_vars, reader_vars>>

\* main(), lines 102-105: the input-file check.
RenewalCheckInput ==
    /\ prog = "renewal" /\ pc = "main"
    /\ IF ~input_exists
       THEN Exit(1, "input_missing")
       ELSE pc' = "load" /\ UNCHANGED <<exit_code, error>>
    /\ UNCHANGED <<prog, input_exists, out_before, out_file, out_open,
                   converter_vars, renewal_vars, namehash_vars, reader_vars>>

\* Lines 107-123: the exclusion set, the duration, the empty collections,
\* and the input file opened (or not: the OSError is not caught).
RenewalSetup ==
    /\ prog = "renewal" /\ pc = "load"
    /\ \E lostnames_file \in LostnamesFiles, quarters \in DurationChoices :
         /\ excluded_names' = load_excluded_names(lostnames_file)
         /\ duration_seconds' = calculate_duration_in_seconds(quarters)
    /\ seen_ids' = {}
    /\ unique_entries' = <<>>
    /\ duplicate_names' = <<>>
    /\ excluded_names_found' = <<>>
    /\ line_num' = 0
    /\ \/ /\ \E content \in LineSeqs(MaxRows) : lines' = content
          /\ pc' = "lines"
          /\ UNCHANGED <<exit_code, error>>
       \/ /\ Exit(1, "read_error")
          /\ UNCHANGED lines
    /\ UNCHANGED <<prog, input_exists, out_before, out_file, out_open,
                   converter_vars, namehash_vars, reader_vars>>

\* One iteration of the loop over the input lines, lines 124-137.
ProcessLine ==
    /\ prog = "renewal" /\ pc = "lines" /\ line_num < Len(lines)
    /\ line_num' = line_num + 1
    /\ LET name == strip(lines[line_num + 1])
       IN IF name = <<>>
          THEN UNCHANGED <<seen_ids, unique_entries, duplicate_names, excluded_names_found>>
          ELSE IF is_excluded(name, excluded_names)
          THEN /\ excluded_names_found' = Append(excluded_names_found, <<line_num + 1, name>>)
               /\ UNCHANGED <<seen_ids, unique_entries, duplicate_names>>
          ELSE LET name_id == keccak256_to_uint(name)
               IN IF name_id \notin seen_ids
                  THEN /\ seen_ids' = mark_seen(seen_ids, name_id)
                       /\ unique_entries' =
                              Append(unique_entries, <<name_id, duration_seconds, name>>)
                       /\ UNCHANGED <<duplicate_names, excluded_names_found>>
                  ELSE /\ duplicate_names' = Append(duplicate_names, <<line_num + 1, name>>)
                       /\ UNCHANGED <<seen_ids, unique_entries, excluded_names_found>>
    /\ UNCHANGED <<shared_vars, converter_vars, excluded_names, duration_seconds, lines,
                   namehash_vars, reader_vars>>

\* Line 140: the input is read; open(output_file, 'w') truncates the file,
\* or fails (the OSError is not caught: exit code 1).
RenewalWriteOpen ==
    /\ prog = "renewal" /\ pc = "lines" /\ line_num = Len(lines)
    /\ \/ /\ out_file' = [exists |-> TRUE, rows |-> <<>>]
          /\ out_open' = TRUE
          /\ pc' = "write_header"
          /\ UNCHANGED <<exit_code, error>>
       \/ /\ Exit(1, "write_error")
          /\ UNCHANGED <<out_file, out_open>>
    /\ UNCHANGED <<prog, input_exists, out_before,
                   converter_vars, renewal_vars, namehash_vars, reader_vars>>

\* Line 144.
RenewalWriteHeader ==
    /\ prog = "renewal" /\ pc = "write_header"
    /\ out_file' = [out_file EXCEPT !.rows = Append(@, RenewalHeader)]
    /\ pc' = "write_rows"
    /\ UNCHANGED <<prog, exit_code, error, input_exists, out_before, out_open,
                   converter_vars, renewal_vars, namehash_vars, reader_vars>>

\* Lines 147-148: the next row, or a failing write (the with block closes the
\* file and the OSError ends the process).
RenewalWriteRow ==
    /\ prog = "renewal" /\ pc = "write_rows"
    /\ Len(out_file.rows) - 1 < Len(unique_entries)
    /\ \/ /\ out_file' =
                [out_file EXCEPT !.rows =
                    Append(@, <<str(unique_entries[Len(@)][1]), str(unique_entries[Len(@)][2])>>)]
          /\ UNCHANGED <<pc, exit_code, error, out_open>>
       \/ /\ Exit(1, "write_error")
          /\ out_open' = FALSE
          /\ UNCHANGED out_file
    /\ UNCHANGED <<prog, input_exists, out_before,
                   converter_vars, renewal_vars, namehash_vars, reader_vars>>

\* Lines 149-175: the file is closed, the report printed, main() returns 0.
RenewalReport ==
    /\ prog = "renewal" /\ pc = "write_rows"
    /\ Len(out_file.rows) - 1 = Len(unique_entries)
    /\ out_open' = FALSE
    /\ Exit(0, "")
    /\ UNCHANGED <<prog, input_exists, out_before, out_file,
                   converter_vars, renewal_vars, namehash_vars, reader_vars>>

\* KeyboardInterrupt, which this script does not catch: an open output file is
\* closed by its with block and the process ends with the signal's status.
RenewalInterrupt ==
    /\ prog = "renewal"
    /\ pc \in {"load", "lines", "write_header", "write_rows"}
    /\ out_open' = FALSE
    /\ Exit(130, "interrupted")
    /\ UNCHANGED <<prog, input_exists, out_before, out_file,
                   converter_vars, renewal_vars, namehash_vars, reader_vars>>

\* ----------------------------------------------------- namehash() alone

NameChars == {"a", "A", "b", ".", Surrogate}

RECURSIVE Strings(_)
Strings(n) ==
    IF n = 0 THEN { <<>> }
    ELSE LET shorter == Strings(n - 1)
         IN shorter \cup { Append(s, c) : s \in {t \in shorter : Len(t) = n - 1},
                                          c \in NameChars }

\* A call of namehash(name) with any str of the bounded length.
NamehashCall ==
    /\ prog = "namehash" /\ pc = "call"
    /\ \E name \in Strings(MaxNameLen) :
         /\ nh_name' = name
         /\ nh_result' = namehash(name)
    /\ pc' = "returned"
    /\ UNCHANGED <<prog, exit_code, error, input_exists, out_before, out_file, out_open,
                   converter_vars, renewal_vars, reader_vars>>

\* ------------------------------------------- read_names_from_csv() alone

\* A call of read_names_from_csv(input_file), lines 202-262: open() fails
\* (FileNotFoundError or another OSError, both sys.exit(1)), or the file holds
\* `content`; any exception of the reading ends the run with sys.exit(1).
ReaderCall ==
    /\ prog = "reader" /\ pc = "call"
    /\ \/ /\ rd_file' = NoFile
          /\ rd_result' = Raised("OSError")
       \/ \E content \in InputFiles :
            /\ rd_file' = [exists |-> TRUE, rows |-> content]
            /\ rd_result' = read_names_from_csv(content)
    /\ IF rd_result'.raised
       THEN Exit(1, "read_error")
       ELSE pc' = "returned" /\ UNCHANGED <<exit_code, error>>
    /\ UNCHANGED <<prog, input_exists, out_before, out_file, out_open,
                   converter_vars, renewal_vars, namehash_vars>>

\* ------------------------------------------ check_namehash_owner() alone

\* Most lookups in a run of lookups.
MaxLookups == 6

\* One call of check_namehash_owner, lines 126-158, in a run of lookups.
LookupCall ==
    /\ prog = "lookups" /\ pc = "call" /\ Len(owners) < MaxLookups
    /\ \E reply \in RegistryReplies :
         LET r == check_namehash_owner(reply, error_count)
         IN /\ owners' = Append(owners, r.owner)
            /\ error_count' = r.count
            /\ registry_log' = registry_log \o r.printed
    /\ UNCHANGED <<shared_vars, BASE_RPC_URL, REGISTRY_CONTRACT_ADDRESS, argv3,
                   validate_registry, names, i, results, unregistered_count,
                   registry_connection, renewal_vars, namehash_vars, reader_vars>>

\* ------------------------------------------------------------ specification

InitShared ==
    /\ exit_code = -1
    /\ error = ""
    /\ out_open = FALSE
    /\ validate_registry = TRUE
    /\ names = <<>>
    /\ i = 0
    /\ results = <<>>
    /\ unregistered_count = 0
    /\ registry_connection = FALSE
    /\ owners = <<>>
    /\ error_count = 0
    /\ registry_log = <<>>
    /\ rd_file = NoFile
    /\ rd_result = Returned([names |-> <<>>, skipped_lines |-> 0])
    /\ excluded_names = {}
    /\ duration_seconds = 0
    /\ lines = <<>>
    /\ line_num = 0
    /\ seen_ids = {}
    /\ unique_entries = <<>>
    /\ duplicate_names = <<>>
    /\ excluded_names_found = <<>>
    /\ nh_name = <<>>
    /\ nh_result = Returned(ZeroHash)

InitConverter ==
    /\ prog = "converter" /\ pc = "import"
    /\ input_exists \in BOOLEAN
    /\ out_before \in {NoFile, OldFile}
    /\ out_file = out_before
    /\ BASE_RPC_URL \in BOOLEAN
    /\ REGISTRY_CONTRACT_ADDRESS \in BOOLEAN
    /\ argv3 \in ArgvChoices

InitRenewal ==
    /\ prog = "renewal" /\ pc = "main"
    /\ input_exists \in BOOLEAN
    /\ out_before \in {NoFile, OldFile}
    /\ out_file = out_before
    /\ BASE_RPC_URL = FALSE
    /\ REGISTRY_CONTRACT_ADDRESS = FALSE
    /\ argv3 = <<>>

InitNamehash ==
    /\ prog = "namehash" /\ pc = "call"
    /\ input_exists = FALSE
    /\ out_before = NoFile
    /\ out_file = NoFile
    /\ BASE_RPC_URL = FALSE
    /\ REGISTRY_CONTRACT_ADDRESS = FALSE
    /\ argv3 = <<>>

InitReader ==
    /\ prog = "reader" /\ pc = "call"
    /\ input_exists = FALSE
    /\ out_before = NoFile
    /\ out_file = NoFile
    /\ BASE_RPC_URL = FALSE
    /\ REGISTRY_CONTRACT_ADDRESS = FALSE
    /\ argv3 = <<>>

InitLookups ==
    /\ prog = "lookups" /\ pc = "call"
    /\ input_exists = FALSE
    /\ out_before = NoFile
    /\ out_file = NoFile
    /\ BASE_RPC_URL = TRUE
    /\ REGISTRY_CONTRACT_ADDRESS = TRUE
    /\ argv3 = <<>>

Init ==
    InitShared /\ (InitConverter \/ InitRenewal \/ InitNamehash \/ InitReader \/ InitLookups)

Next ==
    \/ ModuleConfigCheck
    \/ MainCheckInput
    \/ ReadNames
    \/ InitRegistry
    \/ ConvertName
    \/ ConvertDone
    \/ WriteOpen
    \/ WriteHeader
    \/ WriteRow
    \/ WriteClose
    \/ Interrupt
    \/ RenewalCheckInput
    \/ RenewalSetup
    \/ ProcessLine
    \/ RenewalWriteOpen
    \/ RenewalWriteHeader
    \/ RenewalWriteRow
    \/ RenewalReport
    \/ RenewalInterrupt
    \/ NamehashCall
    \/ ReaderCall
    \/ LookupCall

Spec == Init /\ [][Next]_vars


\* ------------------------------------------------------------------ claims

\* The elements of a set of numbers in ascending order.
RECURSIVE Ascending(_)
Ascending(S) ==
    IF S = {} THEN <<>>
    ELSE LET m == CHOOSE x \in S : \A y \in S : x <= y
         IN <<m>> \o Ascending(S \ {m})

\* Renewal pipeline: the trimmed name on line k, whether line k is excluded,
\* whether it reaches the deduplicator, its identifier, and whether it is the
\* first line read with that identifier.
NameAt(k) == strip(lines[k])
ExcludedLine(k) == NameAt(k) # <<>> /\ lower(NameAt(k)) \in excluded_names
KeptLine(k) == NameAt(k) # <<>> /\ lower(NameAt(k)) \notin excluded_names
IdAt(k) == from_bytes(keccak256(encode_utf8(NameAt(k))))
FirstLine(k) == KeptLine(k) /\ \A j \in 1..(k - 1) : KeptLine(j) => IdAt(j) # IdAt(k)
RepeatLine(k) == KeptLine(k) /\ ~FirstLine(k)

RenewalRead == prog = "renewal" /\ pc \in {"lines", "write_header", "write_rows", "exited"}
                                 /\ error \notin {"input_missing", "read_error"}

\* C1: after any number of lines, the entries are exactly the (identifier,
\* duration) of the kept lines that were the first with their identifier, in
\* input order, every later kept line with a seen identifier is in the
\* duplicate report with its line number and name, the seen set holds the
\* identifiers of the kept lines, and the rows written in a completed run
\* carry pairwise distinct identifiers in that order.
C1_FirstOccurrenceWins ==
    RenewalRead =>
        LET firsts == Ascending({k \in 1..line_num : FirstLine(k)})
            repeats == Ascending({k \in 1..line_num : RepeatLine(k)})
        IN /\ unique_entries =
                 [n \in 1..Len(firsts) |->
                     <<IdAt(firsts[n]), duration_seconds, NameAt(firsts[n])>>]
           /\ duplicate_names =
                 [n \in 1..Len(repeats) |-> <<repeats[n], NameAt(repeats[n])>>]
           /\ seen_ids = {IdAt(k) : k \in {j \in 1..line_num : KeptLine(j)}}
           /\ \A m, n \in 1..Len(unique_entries) :
                 m # n => unique_entries[m][1] # unique_entries[n][1]
           /\ (pc = "exited" /\ exit_code = 0) =>
                 /\ out_file.rows =
                       <<RenewalHeader>> \o
                       [n \in 1..Len(firsts) |->
                           <<str(IdAt(firsts[n])), str(duration_seconds)>>]
                 /\ \A m, n \in 2..Len(out_file.rows) :
                       m # n => out_file.rows[m][1] # out_file.rows[n][1]

\* A completed run that wrote two entries and reported a duplicate.
C1_Witness ==
    /\ prog = "renewal" /\ pc = "exited" /\ exit_code = 0
    /\ Len(unique_entries) >= 2
    /\ Len(duplicate_names) >= 1
    /\ duplicate_names[1][1] = 3

\* C2: every line whose trimmed, lower-cased name is in the exclusion set is
\* listed in the exclusion report as (line number, trimmed name), in input
\* order, and nothing else is; such a line is in no entry and no duplicate
\* record, the seen identifiers are those of the emitted entries only, and a
\* completed run writes one row per entry and none for an excluded line.
C2_ExcludedSkipped ==
    RenewalRead =>
        LET excl == Ascending({k \in 1..line_num : ExcludedLine(k)})
        IN /\ excluded_names_found =
                 [n \in 1..Len(excl) |-> <<excl[n], NameAt(excl[n])>>]
           /\ \A k \in 1..line_num :
                 ExcludedLine(k) =>
                    /\ \A n \in 1..Len(duplicate_names) : duplicate_names[n][1] # k
                    /\ \A n \in 1..Len(unique_entries) : unique_entries[n][3] # NameAt(k)
           /\ seen_ids = {unique_entries[n][1] : n \in 1..Len(unique_entries)}
           /\ Len(unique_entries) + Len(duplicate_names) + Len(excluded_names_found)
                 = Cardinality({k \in 1..line_num : NameAt(k) # <<>>})
           /\ (pc = "exited" /\ exit_code = 0) =>
                 Len(out_file.rows) = 1 + Len(unique_entries)

\* An upper-case name excluded twice by a lower-case entry, beside a kept name.
C2_Witness ==
    /\ prog = "renewal" /\ pc = "exited" /\ exit_code = 0
    /\ Len(excluded_names_found) = 2
    /\ excluded_names_found[1][2] = <<"A">>
    /\ excluded_names_found[2][2] = <<"A">>
    /\ Len(unique_entries) = 1

\* The recursive definition of the namehash of a list of labels (EIP-137):
\* the hash of the parent's namehash and the hash of the leftmost label.
RECURSIVE NamehashOfLabels(_)
NamehashOfLabels(labels) ==
    IF labels = <<>> THEN ZeroHash
    ELSE keccak256(NamehashOfLabels(Tail(labels)) \o keccak256(encode_utf8(Head(labels))))

\* The handles the reader can return from the input files tried.
PossibleNames == { strip(clean(c)) : c \in RawCells } \ { <<>> }

\* For each of them, "0x" and the hex of the namehash of handle + ".base.eth".
ExpectedHex ==
    [h \in PossibleNames |->
        <<"0", "x">> \o hex(NamehashOfLabels(split(lower(h \o BaseEthSuffix), ".")))]

\* The 0x-prefixed hex namehash of handle k of the namehash pipeline.
NamehashHexAt(k) == ExpectedHex[names[k]]

ConverterLooping == prog = "converter" /\ registry_connection

\* The namehashes, in input order, of those of the first k handles whose
\* lookup did not return the zero address.
RECURSIVE NotUnregistered(_)
NotUnregistered(k) ==
    IF k = 0 THEN <<>>
    ELSE NotUnregistered(k - 1)
         \o (IF owners[k] = ZERO_ADDRESS THEN <<>> ELSE <<NamehashHexAt(k)>>)

\* C3: with a registry connection, after i handles there has been one lookup
\* per handle, the result is the namehashes, in input order, of the handles
\* whose lookup did not return the zero address, and the unregistered count
\* is the number of lookups that returned it.
C3_ZeroOwnerDropped ==
    ConverterLooping =>
        /\ validate_registry
        /\ Len(owners) = i
        /\ results = NotUnregistered(i)
        /\ unregistered_count = Cardinality({k \in 1..i : owners[k] = ZERO_ADDRESS})

\* A validated run that dropped an unregistered handle between two registered ones.
C3_Witness ==
    /\ ConverterLooping /\ pc = "exited" /\ exit_code = 0
    /\ owners = <<SOME_ADDRESS, ZERO_ADDRESS, SOME_ADDRESS>>
    /\ Len(results) = 2
    /\ unregistered_count = 1

NamehashAsSpecified(name) ==
    /\ ~nh_result.raised
    /\ name = <<>> => nh_result.value = ZeroHash
    /\ name # <<>> => nh_result.value = NamehashOfLabels(split(lower(name), "."))
    /\ \A other \in Strings(MaxNameLen) :
          lower(other) = lower(name) => namehash(other) = nh_result

\* C4 as stated: namehash returns, for any str at all, the zero hash for ""
\* and otherwise the fold over the lower-cased labels, so that names equal
\* after lower-casing have equal namehashes.
C4_TotalOnAnyString ==
    (prog = "namehash" /\ pc = "returned") => NamehashAsSpecified(nh_name)

\* C4 amended: the same for every str that has a UTF-8 encoding (no lone
\* surrogate), while a name holding a lone surrogate makes namehash raise
\* UnicodeEncodeError.
C4_TotalOnEncodable ==
    (prog = "namehash" /\ pc = "returned") =>
        /\ Encodable(nh_name) => NamehashAsSpecified(nh_name)
        /\ ~Encodable(nh_name) => nh_result = Raised("UnicodeEncodeError")

\* A mixed-case name of two labels has been hashed.
C4_Witness ==
    /\ prog = "namehash" /\ pc = "returned"
    /\ nh_name = <<"A", ".", "b">>
    /\ ~nh_result.raised
    /\ nh_result.value # ZeroHash

\* C5: a completed run without validation leaves the header row `node` and
\* one row per handle the reader returned, in the reader's order, row k being
\* "0x" and the lower-case hex of namehash(handle k + ".base.eth").
C5_OneRowPerHandle ==
    (prog = "converter" /\ ~validate_registry /\ pc = "exited" /\ exit_code = 0) =>
        /\ out_file.exists
        /\ out_file.rows = <<NodeHeader>> \o [k \in 1..Len(names) |-> <<NamehashHexAt(k)>>]
        /\ \A k \in 1..Len(names) : \A n \in 3..Len(out_file.rows[k + 1][1]) :
              out_file.rows[k + 1][1][n] \in
                 {"0", "1", "2", "3", "4", "5", "6", "7", "8", "9",
                  "a", "b", "c", "d", "e", "f"}

\* An unvalidated run wrote three rows, two of them for handles that differ
\* only in case.
C5_Witness ==
    /\ prog = "converter" /\ ~validate_registry /\ pc = "exited" /\ exit_code = 0
    /\ names = << <<"a">>, <<"b">>, <<"A">> >>
    /\ Len(out_file.rows) = 4
    /\ out_file.rows[2] = out_file.rows[4]

C7_NoOutputWithoutValidation ==
    prog = "converter" =>
        /\ (validate_registry /\ ~registry_connection /\ pc \notin {"import", "main", "read", "convert"})
              => /\ pc = "exited" /\ exit_code # 0
                 /\ i = 0 /\ results = <<>> /\ owners = <<>>
                 /\ out_file = out_before /\ ~out_open
        /\ (out_open \/ out_file # out_before) => (~validate_registry \/ registry_connection)

\* Validation was requested for a non-empty list of handles and could not be set up.
C7_Witness ==
    /\ prog = "converter" /\ pc = "exited"
    /\ error = "validation_unavailable"
    /\ validate_registry
    /\ Len(names) = 2

ValidationDisabled == argv3 # <<>> /\ lower(argv3) = NoValidationFlag

\* C8 as stated: the run aborts for a missing endpoint or address only when
\* validation is requested, and a run with --no-validation and a value
\* absent that meets no other failure ends with exit code 0 and the output
\* written.
C8_ConfigRequiredOnlyForValidation ==
    prog = "converter" =>
        /\ error = "missing_config" => ~ValidationDisabled
        /\ (pc = "exited" /\ ValidationDisabled /\ input_exists
              /\ (~BASE_RPC_URL \/ ~REGISTRY_CONTRACT_ADDRESS)
              /\ error \notin {"read_error", "write_error", "interrupted"})
             => (exit_code = 0 /\ out_file # out_before)

\* C9: when the input file does not exist the output path is never opened or
\* changed, and the run ends with a non-zero exit code, 1 for the renewal
\* pipeline.
C9_MissingInputNoOutput ==
    (prog \in {"converter", "renewal"} /\ ~input_exists) =>
        /\ out_file = out_before /\ ~out_open
        /\ pc \in {"import", "main", "exited"}
        /\ pc = "exited" => exit_code # 0
        /\ (pc = "exited" /\ prog = "renewal") => exit_code = 1

\* The renewal pipeline ended on a missing input file with an older output in place.
C9_Witness ==
    /\ prog = "renewal" /\ pc = "exited" /\ error = "input_missing"
    /\ ~input_exists
    /\ out_file = OldFile

\* The rows a completed run writes.
CompleteRows ==
    IF prog = "converter"
    THEN <<NodeHeader>> \o [k \in 1..Len(results) |-> <<results[k]>>]
    ELSE <<RenewalHeader>> \o
         [k \in 1..Len(unique_entries) |->
             <<str(unique_entries[k][1]), str(unique_entries[k][2])>>]

\* C10 as stated: a run that ends in a fatal error or an interruption leaves
\* at the output path either what was there before the run or the complete
\* header and rows.
C10_NoPartialOutput ==
    (prog \in {"converter", "renewal"} /\ pc = "exited" /\ exit_code # 0) =>
        \/ out_file = out_before
        \/ (out_file.exists /\ out_file.rows = CompleteRows)

\* A call of read_names_from_csv that has ended.
ReaderDone == prog = "reader" /\ pc # "call"

\* The trimmed first cell of a row, empty for a blank row.
FirstCell(row) == IF row = <<>> THEN <<>> ELSE strip(clean(row[1]))

NonEmpty(v) == v # <<>>

\* The trimmed first-column values of the rows after the first, the empty
\* ones left out.
FirstColumnNames(rows) ==
    SelectSeq([k \in 1..(Len(rows) - 1) |-> FirstCell(rows[k + 1])], NonEmpty)

\* C11 as stated: read_names_from_csv aborts only when the file cannot be
\* opened; for a file that can be opened it returns, in row order, the
\* non-empty trimmed first-column values of the rows after the first, and
\* counts the other rows as skipped.
C11_AbortsOnlyIfUnopenable ==
    ReaderDone =>
        /\ rd_result.raised <=> ~rd_file.exists
        /\ ~rd_result.raised =>
              /\ rd_result.value.names = FirstColumnNames(rd_file.rows)
              /\ rd_result.value.skipped_lines =
                     (Len(rd_file.rows) - 1) - Len(rd_result.value.names)

\* The last column whose header is the first header's name.
NameColumn(header) ==
    CHOOSE j \in 1..Len(header) :
        /\ clean(header[j]) = clean(header[1])
        /\ ~ \E m \in (j + 1)..Len(header) : clean(header[m]) = clean(header[1])

\* The trimmed value a row holds under that column, empty when the row is
\* blank or shorter.
NameCell(header, row) ==
    IF NameColumn(header) <= Len(row) THEN strip(clean(row[NameColumn(header)])) ELSE <<>>

NamesUnderFirstHeader(rows) ==
    SelectSeq([k \in 1..(Len(rows) - 1) |-> NameCell(rows[1], rows[k + 1])], NonEmpty)

\* The files read_names_from_csv gives up on: no rows, a blank first line, a
\* row the csv parser rejects.
Unreadable(rows) ==
    \/ rows = <<>>
    \/ rows[1] = <<>>
    \/ \E k \in 1..Len(rows) : OversizeField \in { rows[k][j] : j \in 1..Len(rows[k]) }

\* C11, amended: read_names_from_csv aborts exactly when the file cannot be
\* opened, has no rows, has a blank first line, or holds a row the csv parser
\* rejects; otherwise the first row is the header and the call returns, in row
\* order, the non-empty trimmed values the later rows hold under the last
\* column named as the first header, and counts no row as skipped.
C11_AbortsOnUnreadableElseNames ==
    ReaderDone =>
        /\ rd_result.raised <=> (~rd_file.exists \/ Unreadable(rd_file.rows))
        /\ rd_result.raised => (pc = "exited" /\ exit_code = 1)
        /\ ~rd_result.raised =>
              /\ pc = "returned"
              /\ rd_result.value.names = NamesUnderFirstHeader(rd_file.rows)
              /\ rd_result.value.skipped_lines = 0

\* A file of a header, a name, a blank value and a padded name was read: the
\* two names came back, the header and the blank value did not.
C11_Witness ==
    /\ prog = "reader" /\ pc = "returned"
    /\ rd_file.rows = <<HeaderRow, << <<"a">> >>, << <<" ">> >>, << <<" ", "A", " ">> >> >>
    /\ rd_result.value.names = << <<"a">>, <<"A">> >>

\* The lookups so far that failed.
FailedLookups == { k \in 1..Len(owners) : owners[k] = None }

\* What a run with `failures` failed lookups has printed: a verbose message
\* for each of the first three, then the notice once.
ExpectedLog(failures) ==
    [k \in 1..(IF failures <= 3 THEN failures ELSE 4) |->
        IF k <= 3 THEN VerboseError ELSE SuppressionNotice]

\* C12: over any sequence of lookups the error counter is the number of
\* failed lookups so far, the first three failures print one verbose message
\* each, the fourth prints the suppression notice once and later failures
\* print nothing.
C12_CounterAndSuppression ==
    /\ error_count = Cardinality(FailedLookups)
    /\ registry_log = ExpectedLog(error_count)

\* Five lookups failed and one succeeded in a run of lookups: three verbose
\* messages and one notice were printed.
C12_Witness ==
    /\ prog = "lookups"
    /\ error_count = 5 /\ Len(owners) = 6
    /\ owners[2] # None
    /\ registry_log = <<VerboseError, VerboseError, VerboseError, SuppressionNotice>>

====
